---- MODULE Spec2Model ----
(***************************************************************************)
(* Model of the temporal object tracker of src/tracker_logic.py            *)
(* (TrackedObject, ObjectManager).  One action, Process, models one call   *)
(* of ObjectManager.process from its first to its last statement, followed *)
(* by the target selection and the motion command that the main loop of    *)
(* src/main.py derives from the returned mapping.                          *)
(* The frame reader of src/JetsonCamera.py (FrameReader, one thread) and   *)
(* the threads that ask it for frames are modelled statement by statement, *)
(* one action per statement that touches shared state.                     *)
(*                                                                         *)
(* Representation                                                          *)
(*  - a Python dict {uid: TrackedObject} is a sequence of entity records   *)
(*    in insertion order (Python dicts iterate in insertion order);        *)
(*  - a box is the tuple <<x, y, w, h>>;                                   *)
(*  - time.time() is an integer number of seconds; every reading of the    *)
(*    clock inside one call of process yields the value read at line 136;  *)
(*  - calculate_distance is represented by the square of twice the         *)
(*    centroid distance, an integer that orders pairs and passes the       *)
(*    gates exactly as math.hypot does on integer boxes.                   *)
(***************************************************************************)
EXTENDS Integers, Sequences, FiniteSets, TLC

VARIABLES
    config,           \* the values of src/config.py that tracker_logic.py
                      \* imports (line 34), as they are when the tracker
                      \* is constructed
    entities,         \* ObjectManager.entities, insertion-ordered
    history,          \* ObjectManager.history, insertion-ordered
    next_uid,         \* ObjectManager.next_uid
    last_json_write,  \* ObjectManager.last_json_write
    clock,            \* time.time() as read at the start of the latest call
    last,             \* input and outputs of the latest call: the detections,
                      \* matched_uids, the uid each detection led to, what
                      \* the call wrote to the file at json_path, and the
                      \* target and motion command that the main loop
                      \* derived from the returned mapping
    unmatched_run,    \* uid -> consecutive calls without a Step-2 match since
                      \* the entity's latest Step-2 match, for the entities
                      \* of the active set that had one (history variable)
    allocated,        \* every id allocated so far (history variable)
    exported_at,      \* clock of the latest call that exported, None before
                      \* the first (history variable)
    solo,             \* whether all calls so far showed one and the same
                      \* moving object (history variable)
    queues,           \* FrameReader.queues: the list of the one-slot queues
                      \* waiting for a frame, each named by the thread whose
                      \* getFrame call made it
    running,          \* FrameReader._running
    reader_pc,        \* the statement of FrameReader.run the reader is at
    reader_queue,     \* the local variable queue of FrameReader.run
    thread_pc,        \* thread -> where the requesting thread is
    slot,             \* thread -> number of frames in the Queue(1) of the
                      \* thread's current getFrame call
    filled            \* thread -> number of put calls on that queue so far
                      \* (history variable)

trackervars == <<config, entities, history, next_uid, last_json_write, clock,
                 last, unmatched_run, allocated, exported_at, solo>>

camvars == <<queues, running, reader_pc, reader_queue, thread_pc, slot,
             filled>>

vars == <<config, entities, history, next_uid, last_json_write, clock,
          last, unmatched_run, allocated, exported_at, solo,
          queues, running, reader_pc, reader_queue, thread_pc, slot, filled>>

(***************************************************************************)
(* Program constants (src/config.py, src/tracker_logic.py)                 *)
(***************************************************************************)
BORDER_MARGIN == 10
MAX_TRACKING_DISTANCE == 400
RECOVERY_DISTANCE == 500
HISTORY_DURATION == 5
CAM_WIDTH == 1920
CAM_HEIGHT == 1080
write_interval == 2

(***************************************************************************)
(* Bounds of the model                                                     *)
(***************************************************************************)
\* src/config.py line 26 sets MEMORY_TOLERANCE = 10; the model runs the
\* tracker with a shorter tolerance, every statement about it is in terms
\* of MEMORY_TOLERANCE
MEMORY_TOLERANCE == 2
MaxUid == 2        \* process allocates at most this many ids
MaxTracked == 2    \* entities in the active set and the memory set together
Horizon == 6       \* the clock does not pass StartTime + Horizon
StartTime == 3     \* clock value at construction

\* the configuration that src/config.py sets
SourceConfig ==
    [MEMORY_TOLERANCE |-> MEMORY_TOLERANCE,
     BORDER_MARGIN |-> BORDER_MARGIN,
     MAX_TRACKING_DISTANCE |-> MAX_TRACKING_DISTANCE,
     RECOVERY_DISTANCE |-> RECOVERY_DISTANCE,
     HISTORY_DURATION |-> HISTORY_DURATION]

\* src/config.py as it is and with one value edited: a recovery distance
\* below the tracking distance, a negative tolerance, margin or duration
Configs ==
    { SourceConfig,
      [SourceConfig EXCEPT !.RECOVERY_DISTANCE = 300],
      [SourceConfig EXCEPT !.MEMORY_TOLERANCE = -1],
      [SourceConfig EXCEPT !.BORDER_MARGIN = -1],
      [SourceConfig EXCEPT !.HISTORY_DURATION = -1] }

\* boxes: the scenario box of the specification; a box inside the border
\* margin; boxes whose centroids are exactly 400 px and exactly 500 px
\* from the first
BoxA == <<100, 100, 50, 50>>
BoxEdge == <<2, 2, 30, 30>>
Box400 == <<500, 100, 50, 50>>
Box500 == <<600, 100, 50, 50>>

\* what the detector may report for one object
Detections == { [label |-> "cup", box |-> BoxA],
                [label |-> "cup", box |-> BoxEdge],
                [label |-> "cup", box |-> Box400],
                [label |-> "cup", box |-> Box500],
                [label |-> "ball", box |-> BoxA] }

\* detection lists: at most two detections per frame
DetLists == {<<>>} \cup { <<d>> : d \in Detections }
                   \cup { <<d, e>> : d, e \in Detections }

\* seconds that may pass between two calls
Dts == {0, 5, 6}

None == -1

(***************************************************************************)
(* Dict helpers                                                            *)
(***************************************************************************)
Keys(d) == { d[i].uid : i \in DOMAIN d }
KeyList(d) == [i \in DOMAIN d |-> d[i].uid]
Get(d, uid) == d[CHOOSE i \in DOMAIN d : d[i].uid = uid]
DictSet(d, uid, v) ==
    IF uid \in Keys(d)
    THEN [d EXCEPT ![CHOOSE i \in DOMAIN d : d[i].uid = uid] = v]
    ELSE Append(d, v)
DictDel(d, uid) == SelectSeq(d, LAMBDA e : e.uid # uid)

\* the element of a one-element set.  The({ e(v) : v \in {x} }) is e(x)
\* with x evaluated once, before e, as Python evaluates a statement before
\* the next one
The(S) == CHOOSE r \in S : TRUE

(***************************************************************************)
(* TrackedObject                                                           *)
(***************************************************************************)
\* Python truthiness of the argument original_start_time (None and 0 are false)
Truthy(x) == x # None /\ x # 0

\* datetime.fromtimestamp(t).strftime("%Y-%m-%d %H:%M:%S"): day number and
\* hour, minute, second of the day
FormatTimestamp(t) ==
    <<t \div 86400, (t % 86400) \div 3600, (t % 3600) \div 60, t % 60>>

\* TrackedObject.__init__; t is the value of time.time()
TrackedObject(uid, label, box, original_start_time, t) ==
    LET st == IF Truthy(original_start_time) THEN original_start_time ELSE t
    IN [uid |-> uid, label |-> label, box |-> box,
        start_time |-> st,
        first_seen_str |-> FormatTimestamp(st),
        last_seen_time |-> t,
        missing_frames |-> 0,
        active |-> TRUE]

\* update that forgets line 64
update_StaysInactive(e, box, t) ==
    [e EXCEPT !.box = box, !.last_seen_time = t, !.missing_frames = 0]

\* update that forgets line 63
update_KeepsMissing(e, box, t) ==
    [e EXCEPT !.box = box, !.last_seen_time = t, !.active = TRUE]

\* TrackedObject.update
update(e, box, t) ==
    [e EXCEPT !.box = box, !.last_seen_time = t,
              !.missing_frames = 0, !.active = TRUE]

\* mark_missing that forgets line 69
mark_missing_StaysActive(e) ==
    [e EXCEPT !.missing_frames = @ + 1]

\* TrackedObject.mark_missing
mark_missing(e) ==
    [e EXCEPT !.missing_frames = @ + 1, !.active = FALSE]

\* TrackedObject.get_duration_string: <<minutes, seconds>> of "MM:SS"
get_duration_string(e, t) ==
    LET elapsed == t - e.start_time
    IN <<elapsed \div 60, elapsed % 60>>

(***************************************************************************)
(* ObjectManager helpers                                                   *)
(***************************************************************************)
is_in_kill_zone(box, img_w, img_h) ==
    \/ box[1] < config.BORDER_MARGIN
    \/ box[2] < config.BORDER_MARGIN
    \/ (box[1] + box[3]) > (img_w - config.BORDER_MARGIN)
    \/ (box[2] + box[4]) > (img_h - config.BORDER_MARGIN)

\* (2 * math.hypot(dx, dy))^2 of the two centroids
calculate_distance(box1, box2) ==
    LET c1x == 2 * box1[1] + box1[3]
        c1y == 2 * box1[2] + box1[4]
        c2x == 2 * box2[1] + box2[3]
        c2y == 2 * box2[2] + box2[4]
    IN (c2x - c1x) * (c2x - c1x) + (c2y - c1y) * (c2y - c1y)

\* the comparison of lines 149 and 188 admitting the limit itself
Closer_Inclusive(dist, limit) ==
    dist <= 4 * limit * limit

\* dist < limit, for dist as calculate_distance represents it
Closer(dist, limit) ==
    dist < 4 * limit * limit

(***************************************************************************)
(* process, Step 1: candidate pairs (lines 140-151)                        *)
(***************************************************************************)
RECURSIVE BuildMatches(_, _, _)
BuildMatches(ents, dets, p) ==
    IF p > Len(ents) * Len(dets) THEN <<>>
    ELSE LET k == ((p - 1) \div Len(dets)) + 1
             i == ((p - 1) % Len(dets)) + 1
             dist == calculate_distance(ents[k].box, dets[i].box)
             rest == BuildMatches(ents, dets, p + 1)
         IN IF ents[k].label = dets[i].label
               /\ Closer(dist, config.MAX_TRACKING_DISTANCE)
            THEN <<[dist |-> dist, uid |-> ents[k].uid, i |-> i]>> \o rest
            ELSE rest

(***************************************************************************)
(* process, Step 2: stable sort by distance and greedy scan (156-169)      *)
(***************************************************************************)
\* line 156 sorting with the farthest pair first
RECURSIVE InsertSorted_Descending(_, _)
InsertSorted_Descending(sorted, x) ==
    IF sorted = <<>> THEN <<x>>
    ELSE IF Head(sorted).dist >= x.dist
         THEN <<Head(sorted)>> \o InsertSorted_Descending(Tail(sorted), x)
         ELSE <<x>> \o sorted

\* list.sort(key=...) is stable: x goes behind every element not farther
RECURSIVE InsertSorted(_, _)
InsertSorted(sorted, x) ==
    IF sorted = <<>> THEN <<x>>
    ELSE IF Head(sorted).dist <= x.dist
         THEN <<Head(sorted)>> \o InsertSorted(Tail(sorted), x)
         ELSE <<x>> \o sorted

RECURSIVE SortMatches(_, _)
SortMatches(ms, n) ==
    IF n = 0 THEN <<>>
    ELSE InsertSorted(SortMatches(ms, n - 1), ms[n])

\* lines 163-169 without line 168
AcceptMatch_ForgetsUid(st, m, dets) ==
    IF m.uid \in st.matched_uids \/ m.i \in st.matched_indices
    THEN st
    ELSE [st EXCEPT
            !.entities = DictSet(st.entities, m.uid,
                            update(Get(st.entities, m.uid),
                                   dets[m.i].box, st.t)),
            !.matched_indices = st.matched_indices \cup {m.i},
            !.assoc[m.i] = [kind |-> "match", uid |-> m.uid]]

\* lines 163-169 for one element of the sorted list
\* st = [entities, matched_uids, matched_indices, assoc, t]
AcceptMatch(st, m, dets) ==
    IF m.uid \in st.matched_uids \/ m.i \in st.matched_indices
    THEN st
    ELSE [st EXCEPT
            !.entities = DictSet(st.entities, m.uid,
                            update(Get(st.entities, m.uid),
                                   dets[m.i].box, st.t)),
            !.matched_uids = st.matched_uids \cup {m.uid},
            !.matched_indices = st.matched_indices \cup {m.i},
            !.assoc[m.i] = [kind |-> "match", uid |-> m.uid]]

RECURSIVE GreedyScan(_, _, _, _)
GreedyScan(ms, k, dets, st) ==
    IF k > Len(ms) THEN st
    ELSE The({ GreedyScan(ms, k + 1, dets, s) :
                 s \in {AcceptMatch(st, ms[k], dets)} })

(***************************************************************************)
(* process, Step 3: recovery from history or creation (172-205)            *)
(***************************************************************************)
\* lines 181-193 without the label test of line 188
RECURSIVE SearchHistory_AnyLabel(_, _, _, _, _, _)
SearchHistory_AnyLabel(hist, k, new_label, new_box, best_history_uid, min_hist_dist) ==
    IF k > Len(hist) THEN best_history_uid
    ELSE LET h_entity == hist[k]
             dist == calculate_distance(h_entity.box, new_box)
         IN IF dist < min_hist_dist
            THEN SearchHistory_AnyLabel(hist, k + 1, new_label, new_box,
                                        h_entity.uid, dist)
            ELSE SearchHistory_AnyLabel(hist, k + 1, new_label, new_box,
                                        best_history_uid, min_hist_dist)

\* lines 181-193: the first history entry of the label at the least
\* distance below RECOVERY_DISTANCE, None when there is none
RECURSIVE SearchHistory(_, _, _, _, _, _)
SearchHistory(hist, k, new_label, new_box, best_history_uid, min_hist_dist) ==
    IF k > Len(hist) THEN best_history_uid
    ELSE LET h_entity == hist[k]
             dist == calculate_distance(h_entity.box, new_box)
         IN IF h_entity.label # new_label
            THEN SearchHistory(hist, k + 1, new_label, new_box,
                               best_history_uid, min_hist_dist)
            ELSE IF dist < min_hist_dist
                 THEN SearchHistory(hist, k + 1, new_label, new_box,
                                    h_entity.uid, dist)
                 ELSE SearchHistory(hist, k + 1, new_label, new_box,
                                    best_history_uid, min_hist_dist)

\* line 179 with a starting distance that lets RECOVERY_DISTANCE itself pass
BestHistoryUid_AtLimit(hist, new_label, new_box) ==
    SearchHistory(hist, 1, new_label, new_box, None,
                  4 * config.RECOVERY_DISTANCE * config.RECOVERY_DISTANCE + 1)

\* lines 178-193
BestHistoryUid(hist, new_label, new_box) ==
    SearchHistory(hist, 1, new_label, new_box, None,
                  4 * config.RECOVERY_DISTANCE * config.RECOVERY_DISTANCE)

\* lines 196-200 with the start time left out of the constructor call
Resurrect_FreshStart(st, i, obj, best_history_uid) ==
    LET old_entity == Get(st.history, best_history_uid)
        resurrected == TrackedObject(old_entity.uid, obj.label, obj.box,
                                     None, st.t)
    IN [st EXCEPT !.history = DictDel(st.history, best_history_uid),
                  !.entities = DictSet(st.entities, best_history_uid,
                                       resurrected),
                  !.assoc[i] = [kind |-> "resurrect",
                                uid |-> best_history_uid]]

\* lines 196-200 followed by the increment of line 205
Resurrect_TakesId(st, i, obj, best_history_uid) ==
    LET old_entity == Get(st.history, best_history_uid)
        resurrected == TrackedObject(old_entity.uid, obj.label, obj.box,
                                     old_entity.start_time, st.t)
    IN [st EXCEPT !.history = DictDel(st.history, best_history_uid),
                  !.entities = DictSet(st.entities, best_history_uid,
                                       resurrected),
                  !.next_uid = st.next_uid + 1,
                  !.assoc[i] = [kind |-> "resurrect",
                                uid |-> best_history_uid]]

\* lines 196-200 without the del of line 200
Resurrect_KeepsMemory(st, i, obj, best_history_uid) ==
    LET old_entity == Get(st.history, best_history_uid)
        resurrected == TrackedObject(old_entity.uid, obj.label, obj.box,
                                     old_entity.start_time, st.t)
    IN [st EXCEPT !.entities = DictSet(st.entities, best_history_uid,
                                       resurrected),
                  !.assoc[i] = [kind |-> "resurrect",
                                uid |-> best_history_uid]]

\* lines 196-200
Resurrect(st, i, obj, best_history_uid) ==
    LET old_entity == Get(st.history, best_history_uid)
        resurrected == TrackedObject(old_entity.uid, obj.label, obj.box,
                                     old_entity.start_time, st.t)
    IN [st EXCEPT !.history = DictDel(st.history, best_history_uid),
                  !.entities = DictSet(st.entities, best_history_uid,
                                       resurrected),
                  !.assoc[i] = [kind |-> "resurrect",
                                uid |-> best_history_uid]]

\* lines 202-205 without line 205
CreateNew_SameUid(st, i, obj) ==
    [st EXCEPT !.entities = DictSet(st.entities, st.next_uid,
                               TrackedObject(st.next_uid, obj.label, obj.box,
                                             None, st.t)),
               !.assoc[i] = [kind |-> "new", uid |-> st.next_uid]]

\* lines 202-205
CreateNew(st, i, obj) ==
    [st EXCEPT !.entities = DictSet(st.entities, st.next_uid,
                               TrackedObject(st.next_uid, obj.label, obj.box,
                                             None, st.t)),
               !.next_uid = st.next_uid + 1,
               !.assoc[i] = [kind |-> "new", uid |-> st.next_uid]]

\* lines 173-205 for one detection without the test of line 174
RecoverOne_IgnoresClaim(st, i, obj, matched_indices) ==
    The({ IF best # None THEN Resurrect(st, i, obj, best)
                         ELSE CreateNew(st, i, obj) :
            best \in {BestHistoryUid(st.history, obj.label, obj.box)} })

\* lines 173-205 for one detection
\* st = [entities, history, next_uid, assoc, t]
RecoverOne(st, i, obj, matched_indices) ==
    IF i \in matched_indices THEN st
    ELSE The({ IF best # None THEN Resurrect(st, i, obj, best)
                              ELSE CreateNew(st, i, obj) :
                 best \in {BestHistoryUid(st.history, obj.label, obj.box)} })

RECURSIVE RecoverOrCreate(_, _, _, _)
RecoverOrCreate(dets, i, matched_indices, st) ==
    IF i > Len(dets) THEN st
    ELSE The({ RecoverOrCreate(dets, i + 1, matched_indices, s) :
                 s \in {RecoverOne(st, i, dets[i], matched_indices)} })

(***************************************************************************)
(* process, Step 4: unmatched entities, kill zone and timeout (209-234)    *)
(***************************************************************************)
\* lines 221-228 with the kill zone keeping the entity in the history
Disposal_KillToHistory(codes, entity, img_w, img_h) ==
    IF is_in_kill_zone(entity.box, img_w, img_h)
    THEN Append(codes, [uid |-> entity.uid, keep_in_history |-> TRUE])
    ELSE IF entity.missing_frames > config.MEMORY_TOLERANCE
         THEN Append(codes, [uid |-> entity.uid, keep_in_history |-> TRUE])
         ELSE codes

\* lines 221-228 with >= for > in line 225
Disposal_AtTolerance(codes, entity, img_w, img_h) ==
    IF is_in_kill_zone(entity.box, img_w, img_h)
    THEN Append(codes, [uid |-> entity.uid, keep_in_history |-> FALSE])
    ELSE IF entity.missing_frames >= config.MEMORY_TOLERANCE
         THEN Append(codes, [uid |-> entity.uid, keep_in_history |-> TRUE])
         ELSE codes

\* lines 221-228: what is appended to codes_to_move_to_history
Disposal(codes, entity, img_w, img_h) ==
    IF is_in_kill_zone(entity.box, img_w, img_h)
    THEN Append(codes, [uid |-> entity.uid, keep_in_history |-> FALSE])
    ELSE IF entity.missing_frames > config.MEMORY_TOLERANCE
         THEN Append(codes, [uid |-> entity.uid, keep_in_history |-> TRUE])
         ELSE codes

\* lines 213-228 skipping, besides the matched entities, those that are
\* already inactive
MarkOne_SkipsInactive(st, uid, matched_uids, img_w, img_h) ==
    IF uid \in matched_uids \/ ~Get(st.entities, uid).active THEN st
    ELSE The({ [entities |-> DictSet(st.entities, uid, entity),
                codes |-> Disposal(st.codes, entity, img_w, img_h)] :
                 entity \in {mark_missing(Get(st.entities, uid))} })

\* lines 213-228 for one uid of current_active_uids
\* st = [entities, codes]
MarkOne(st, uid, matched_uids, img_w, img_h) ==
    IF uid \in matched_uids THEN st
    ELSE The({ [entities |-> DictSet(st.entities, uid, entity),
                codes |-> Disposal(st.codes, entity, img_w, img_h)] :
                 entity \in {mark_missing(Get(st.entities, uid))} })

RECURSIVE MarkUnmatched(_, _, _, _, _, _)
MarkUnmatched(uids, k, matched_uids, img_w, img_h, st) ==
    IF k > Len(uids) THEN st
    ELSE The({ MarkUnmatched(uids, k + 1, matched_uids, img_w, img_h, s) :
                 s \in {MarkOne(st, uids[k], matched_uids, img_w, img_h)} })

\* lines 232-234 with line 234 under an else
MoveOne_KeepsActive(st, code) ==
    [entities |-> IF code.keep_in_history THEN st.entities
                  ELSE DictDel(st.entities, code.uid),
     history |-> IF code.keep_in_history
                 THEN DictSet(st.history, code.uid,
                              Get(st.entities, code.uid))
                 ELSE st.history]

\* lines 232-234 for one element of codes_to_move_to_history
\* st = [entities, history]
MoveOne(st, code) ==
    [entities |-> DictDel(st.entities, code.uid),
     history |-> IF code.keep_in_history
                 THEN DictSet(st.history, code.uid,
                              Get(st.entities, code.uid))
                 ELSE st.history]

RECURSIVE MoveOrDelete(_, _, _)
MoveOrDelete(codes, k, st) ==
    IF k > Len(codes) THEN st
    ELSE The({ MoveOrDelete(codes, k + 1, s) :
                 s \in {MoveOne(st, codes[k])} })

(***************************************************************************)
(* process, Step 5: garbage collection of the history (238-243)            *)
(***************************************************************************)
\* line 240 with a retention one second longer than HISTORY_DURATION
Expired_Late(entity, current_time) ==
    (current_time - entity.last_seen_time) > config.HISTORY_DURATION + 1

\* line 240
Expired(entity, current_time) ==
    (current_time - entity.last_seen_time) > config.HISTORY_DURATION

\* lines 238-241: history_to_delete
HistoryToDelete(hist, current_time) ==
    KeyList(SelectSeq(hist, LAMBDA e : Expired(e, current_time)))

\* lines 242-243
CollectGarbage(hist, current_time) ==
    SelectSeq(hist, LAMBDA e : ~Expired(e, current_time))

(***************************************************************************)
(* process, Step 6: throttled JSON export (247-258)                        *)
(***************************************************************************)
\* line 247 with >= for >
ExportDue_AtInterval(current_time, last_write) ==
    current_time - last_write >= write_interval

ExportDue(current_time, last_write) ==
    current_time - last_write > write_interval

JsonOutput(ents, current_time) ==
    [k \in DOMAIN ents |->
        [internal_id |-> ents[k].uid,
         class |-> ents[k].label,
         duration |-> get_duration_string(ents[k], current_time),
         timestamp |-> ents[k].first_seen_str,
         status |-> IF ents[k].active THEN "LIVE" ELSE "MEMORY"]]

\* write_json without the try of lines 105-110: the exception leaves the
\* method
write_json_Propagates(data_list, io_ok) ==
    IF io_ok THEN [export |-> "written", data |-> data_list]
    ELSE [export |-> "raised", data |-> <<>>]

\* write_json: the data reach the file unless open, json.dump or chmod
\* raises; the exception is caught and printed, nothing is raised further
write_json(data_list, io_ok) ==
    IF io_ok THEN [export |-> "written", data |-> data_list]
    ELSE [export |-> "failed", data |-> <<>>]

\* line 247 false: the call leaves the file alone
NoExport == [export |-> "none", data |-> <<>>]

\* lines 247-258: line 258 stamps last_json_write when write_json has
\* returned
Export(ents, current_time, last_write, io_ok) ==
    IF ExportDue(current_time, last_write)
    THEN The({ [json |-> w,
                last_json_write |-> IF w.export = "raised" THEN last_write
                                    ELSE current_time] :
               w \in {write_json(JsonOutput(ents, current_time), io_ok)} })
    ELSE [json |-> NoExport, last_json_write |-> last_write]

(***************************************************************************)
(* ObjectManager.process (lines 131-260)                                   *)
(***************************************************************************)
NoAssoc(dets) == [i \in DOMAIN dets |-> [kind |-> "none", uid |-> None]]

\* Steps 1 and 2
MatchActive(detected_objects, current_time) ==
    The({ GreedyScan(sorted, 1, detected_objects,
             [entities |-> entities, matched_uids |-> {},
              matched_indices |-> {},
              assoc |-> NoAssoc(detected_objects),
              t |-> current_time]) :
          sorted \in { SortMatches(matches, Len(matches)) :
                         matches \in {BuildMatches(entities,
                                                   detected_objects, 1)} } })

(***************************************************************************)
(* History variables                                                       *)
(***************************************************************************)
\* the ids a call created entities under
NewUids(assoc) ==
    { assoc[i].uid : i \in { j \in DOMAIN assoc : assoc[j].kind = "new" } }

\* the ids a call took back from the history
ResurrectedUids(assoc) ==
    { assoc[i].uid :
        i \in { j \in DOMAIN assoc : assoc[j].kind = "resurrect" } }

\* unmatched_run after a call that matched matched_uids in Step 2 and left
\* active_uids in entities: an entity has a run from its first Step-2 match
\* until it leaves the active set
NextRun(matched_uids, active_uids) ==
    [u \in (matched_uids \cup DOMAIN unmatched_run) \cap active_uids |->
        IF u \in matched_uids THEN 0 ELSE unmatched_run[u] + 1]

\* the runs, this call included, of the entities that codes takes out of
\* the active set
RunsDisposed(codes) ==
    { [uid |-> codes[k].uid, run |-> unmatched_run[codes[k].uid] + 1] :
        k \in { j \in DOMAIN codes : codes[j].uid \in DOMAIN unmatched_run } }

\* the detections are, in some order, the labels and boxes of the entities
\* that the previous call matched in Step 2
SameDetections(dets, uids) ==
    /\ uids # {}
    /\ Len(dets) = Cardinality(uids)
    /\ \E f \in [DOMAIN dets -> uids] :
          /\ \A u \in uids : \E i \in DOMAIN dets : f[i] = u
          /\ \A i \in DOMAIN dets :
                /\ dets[i].label = Get(entities, f[i]).label
                /\ dets[i].box = Get(entities, f[i]).box

\* the entities that Step 2 matched although the call before had left them
\* with active = false
Rematched(matched_uids) ==
    { u \in matched_uids : ~Get(entities, u).active }

SoloStart  == [st |-> "start", label |-> "", uid |-> None]
SoloBroken == [st |-> "broken", label |-> "", uid |-> None]

\* solo after a call with the given detections: "run" while every call so
\* far had exactly one detection, always of the same label, whose centroid
\* moved at most MAX_TRACKING_DISTANCE since the call before; uid is the id
\* the first call gave the object
NextSolo(dets, assoc) ==
    IF Len(dets) # 1 \/ solo.st = "broken" THEN SoloBroken
    ELSE IF solo.st = "start"
         THEN [st |-> "run", label |-> dets[1].label, uid |-> assoc[1].uid]
         ELSE LET d == calculate_distance(last.detected_objects[1].box,
                                          dets[1].box)
                  lim == 4 * MAX_TRACKING_DISTANCE * MAX_TRACKING_DISTANCE
              IN IF dets[1].label = solo.label /\ d <= lim
                 THEN solo
                 ELSE SoloBroken

(***************************************************************************)
(* main loop: target selection (src/main.py 138-146) and                   *)
(* RobotBrain.calculate_move (src/robot_brain.py 35-85)                    *)
(***************************************************************************)
\* lines 141-146 without the test of entity.active
RECURSIVE SelectTarget_IgnoresActive(_, _, _, _)
SelectTarget_IgnoresActive(active_entities, k, target_entity, max_area) ==
    IF k > Len(active_entities) THEN target_entity
    ELSE LET entity == active_entities[k]
             area == entity.box[3] * entity.box[4]
         IN IF area > max_area
            THEN SelectTarget_IgnoresActive(active_entities, k + 1,
                                            <<entity>>, area)
            ELSE SelectTarget_IgnoresActive(active_entities, k + 1,
                                            target_entity, max_area)

\* lines 139-146 with area >= max_area at line 144
RECURSIVE SelectTarget_LastOnTie(_, _, _, _)
SelectTarget_LastOnTie(active_entities, k, target_entity, max_area) ==
    IF k > Len(active_entities) THEN target_entity
    ELSE LET entity == active_entities[k]
             area == entity.box[3] * entity.box[4]
         IN IF entity.active /\ area >= max_area
            THEN SelectTarget_LastOnTie(active_entities, k + 1,
                                        <<entity>>, area)
            ELSE SelectTarget_LastOnTie(active_entities, k + 1,
                                        target_entity, max_area)

\* lines 139-146: the active entity of the largest box area, the first of
\* them in the order of the mapping; target_entity is <<>> for None and
\* <<entity>> otherwise
RECURSIVE SelectTarget(_, _, _, _)
SelectTarget(active_entities, k, target_entity, max_area) ==
    IF k > Len(active_entities) THEN target_entity
    ELSE LET entity == active_entities[k]
             area == entity.box[3] * entity.box[4]
         IN IF entity.active /\ area > max_area
            THEN SelectTarget(active_entities, k + 1, <<entity>>, area)
            ELSE SelectTarget(active_entities, k + 1,
                              target_entity, max_area)

\* RobotBrain.calculate_move: throttle in hundredths (SPEED_APPROACH = 0.65),
\* steering = error_x * STEERING_GAIN in units of 1 / (10 * frame_width):
\* error_x = (x + w / 2 - frame_width / 2) / (frame_width / 2);
\* box[2] / frame_width < TARGET_WIDTH_RATIO = 0.4 is 10 * w < 4 * width
calculate_move(target_entity, frame_width) ==
    IF target_entity # <<>>
    THEN LET box == target_entity[1].box
         IN [throttle |-> IF 10 * box[3] < 4 * frame_width THEN 65 ELSE 0,
             steering |-> 6 * (2 * box[1] + box[3] - frame_width),
             status_text |-> "TRACKING"]
    ELSE [throttle |-> 0, steering |-> 0,
          status_text |-> "NO TARGET - STOPPED"]

\* before the first frame no command has been computed
NoCommand == [throttle |-> 0, steering |-> 0, status_text |-> ""]

\* Steps 1 to 5 of a call at current_time
Track(detected_objects, current_time) ==
    The({ The({ The({ The({
        [matched_uids |-> s2.matched_uids,
         assoc |-> s3.assoc,
         next_uid |-> s3.next_uid,
         codes |-> s4.codes,
         entities |-> s5.entities,
         history |-> CollectGarbage(s5.history, current_time),
         history_to_delete |-> HistoryToDelete(s5.history, current_time)] :
          s5 \in {MoveOrDelete(s4.codes, 1,
                     [entities |-> s4.entities, history |-> s3.history])} }) :
          s4 \in {MarkUnmatched(KeyList(s3.entities), 1, s2.matched_uids,
                     CAM_WIDTH, CAM_HEIGHT,
                     [entities |-> s3.entities, codes |-> <<>>])} }) :
          s3 \in {RecoverOrCreate(detected_objects, 1, s2.matched_indices,
                     [entities |-> s2.entities, history |-> history,
                      next_uid |-> next_uid, assoc |-> s2.assoc,
                      t |-> current_time])} }) :
          s2 \in {MatchActive(detected_objects, current_time)} })

Process(detected_objects, dt, io_ok) ==
    \E current_time \in {clock + dt} :
    /\ current_time <= StartTime + Horizon
    /\ \E r \in {Track(detected_objects, current_time)} :
       \E x \in {Export(r.entities, current_time, last_json_write, io_ok)} :
          /\ r.next_uid <= MaxUid + 1
          /\ Len(r.entities) + Len(r.history)
                + Len(r.history_to_delete) <= MaxTracked
          /\ entities' = r.entities
          /\ history' = r.history
          /\ next_uid' = r.next_uid
          /\ last_json_write' = x.last_json_write
          /\ clock' = current_time
          /\ last' = [detected_objects |-> detected_objects,
                      matched_uids |-> r.matched_uids,
                      assoc |-> r.assoc,
                      codes |-> r.codes,
                      runs_disposed |-> RunsDisposed(r.codes),
                      rematched |-> Rematched(r.matched_uids),
                      repeated |-> SameDetections(detected_objects,
                                                  last.matched_uids),
                      history_to_delete |-> r.history_to_delete,
                      json |-> x.json,
                      target_entity |-> SelectTarget(r.entities, 1, <<>>, 0),
                      command |-> calculate_move(
                                     SelectTarget(r.entities, 1, <<>>, 0),
                                     CAM_WIDTH)]
          /\ unmatched_run' = NextRun(r.matched_uids, Keys(r.entities))
          /\ allocated' = allocated \cup NewUids(r.assoc)
          /\ exported_at' = IF x.json.export = "none" THEN exported_at
                            ELSE current_time
          /\ solo' = NextSolo(detected_objects, r.assoc)
          /\ UNCHANGED config
          /\ UNCHANGED camvars

\* ObjectManager.__init__ (lines 83-93): empty tracker, the log file
\* initialised with the empty list; no statement of it reads a value of
\* the configuration
(***************************************************************************)
(* The frame reader (src/JetsonCamera.py).  Python runs one thread at a    *)
(* time and a list append, a list pop, the truth test of a list and the    *)
(* calls of a Queue are each atomic, so each is one action and the         *)
(* threads interleave between them.  A Queue(1) belongs to one getFrame    *)
(* call; a thread is inside at most one getFrame call, so its queue is     *)
(* named by the thread.                                                    *)
(***************************************************************************)
\* the threads that call getFrame: the main loop (src/main.py line 115)
\* and the Previewer thread (JetsonCamera.py line 80)
Threads == {"main", "previewer"}

NoQueue == "none"

\* Camera.__init__: the reader thread is started, nothing is requested
\* yet, the preview is not started
CameraOpened ==
    /\ queues = <<>>
    /\ running = TRUE
    /\ reader_pc = "while"
    /\ reader_queue = NoQueue
    /\ thread_pc = [t \in Threads |->
                      IF t = "main" THEN "loop" ELSE "unstarted"]
    /\ slot = [t \in Threads |-> 0]
    /\ filled = [t \in Threads |-> 0]

\* list.pop() reading the last element without removing it
pop_Peek(list) ==
    [item |-> list[Len(list)], list |-> list]

\* list.pop(): the last element, and the list without it
pop(list) ==
    [item |-> list[Len(list)], list |-> SubSeq(list, 1, Len(list) - 1)]

\* line 51: while self._running
ReaderWhile ==
    /\ reader_pc = "while"
    /\ reader_pc' = IF running THEN "read" ELSE "done"
    /\ UNCHANGED <<queues, running, reader_queue, thread_pc, slot, filled>>
    /\ UNCHANGED trackervars

\* line 52: _, frame = self.camera.read(), the camera delivering a frame
ReaderRead ==
    /\ reader_pc = "read"
    /\ reader_pc' = "test"
    /\ UNCHANGED <<queues, running, reader_queue, thread_pc, slot, filled>>
    /\ UNCHANGED trackervars

\* line 53: while self.queues
ReaderTest ==
    /\ reader_pc = "test"
    /\ reader_pc' = IF queues # <<>> THEN "pop" ELSE "while"
    /\ UNCHANGED <<queues, running, reader_queue, thread_pc, slot, filled>>
    /\ UNCHANGED trackervars

\* line 54: queue = self.queues.pop()
ReaderPop ==
    /\ reader_pc = "pop"
    /\ \E r \in {pop(queues)} :
          /\ reader_queue' = r.item
          /\ queues' = r.list
    /\ reader_pc' = "put"
    /\ UNCHANGED <<running, thread_pc, slot, filled>>
    /\ UNCHANGED trackervars

\* line 55: queue.put(frame), which blocks while the queue is full
ReaderPut ==
    /\ reader_pc = "put"
    /\ slot[reader_queue] = 0
    /\ slot' = [slot EXCEPT ![reader_queue] = 1]
    /\ filled' = [filled EXCEPT ![reader_queue] = @ + 1]
    /\ reader_pc' = "test"
    /\ UNCHANGED <<queues, running, reader_queue, thread_pc>>
    /\ UNCHANGED trackervars

Reader ==
    ReaderWhile \/ ReaderRead \/ ReaderTest \/ ReaderPop \/ ReaderPut

\* getFrame lines 61-62: queue = Queue(1); self.addQueue(queue)
AddQueue(t) ==
    /\ thread_pc[t] = "loop"
    /\ queues' = Append(queues, t)
    /\ slot' = [slot EXCEPT ![t] = 0]
    /\ filled' = [filled EXCEPT ![t] = 0]
    /\ thread_pc' = [thread_pc EXCEPT ![t] = "get"]
    /\ UNCHANGED <<running, reader_pc, reader_queue>>
    /\ UNCHANGED trackervars

\* getFrame line 63: queue.get(timeout = timeout) returning the frame
GetFrame(t) ==
    /\ thread_pc[t] = "get"
    /\ slot[t] = 1
    /\ slot' = [slot EXCEPT ![t] = 0]
    /\ thread_pc' = [thread_pc EXCEPT ![t] = "loop"]
    /\ UNCHANGED <<queues, running, reader_pc, reader_queue, filled>>
    /\ UNCHANGED trackervars

\* getFrame line 63: queue.get raising queue.Empty when the 2000 seconds of
\* the callers have passed; a reader that runs needs far less for a round,
\* so the time is taken to run out only once the reader has ended
Timeout(t) ==
    /\ thread_pc[t] = "get"
    /\ slot[t] = 0
    /\ reader_pc = "done"
    /\ thread_pc' = [thread_pc EXCEPT ![t] = "raised"]
    /\ UNCHANGED <<queues, running, reader_pc, reader_queue, slot, filled>>
    /\ UNCHANGED trackervars

Requester(t) ==
    AddQueue(t) \/ GetFrame(t) \/ Timeout(t)

\* Camera.start_preview: the Previewer thread starts its loop
StartPreview ==
    /\ thread_pc["previewer"] = "unstarted"
    /\ thread_pc' = [thread_pc EXCEPT !["previewer"] = "loop"]
    /\ UNCHANGED <<queues, running, reader_pc, reader_queue, slot, filled>>
    /\ UNCHANGED trackervars

\* the main loop left with q (main.py line 177), Camera.close calling
\* FrameReader.stop
Close ==
    /\ thread_pc["main"] = "loop"
    /\ running' = FALSE
    /\ thread_pc' = [thread_pc EXCEPT !["main"] = "closed"]
    /\ UNCHANGED <<queues, reader_pc, reader_queue, slot, filled>>
    /\ UNCHANGED trackervars

Constructed ==
    /\ entities = <<>>
    /\ history = <<>>
    /\ next_uid = 1
    /\ last_json_write = 0
    /\ clock = StartTime
    /\ last = [detected_objects |-> <<>>, matched_uids |-> {},
               assoc |-> <<>>, codes |-> <<>>, runs_disposed |-> {},
               rematched |-> {}, repeated |-> FALSE,
               history_to_delete |-> <<>>,
               json |-> write_json(<<>>, TRUE),
               target_entity |-> <<>>, command |-> NoCommand]
    /\ unmatched_run = <<>>
    /\ allocated = {}
    /\ exported_at = None
    /\ solo = SoloStart

Init ==
    /\ config = SourceConfig
    /\ Constructed
    /\ CameraOpened

\* construction of the tracker under any of the Configs
InitCfg ==
    /\ config \in Configs
    /\ Constructed
    /\ CameraOpened

\* outcomes of the file write of a call at current_time
IoOutcomes(current_time) ==
    IF ExportDue(current_time, last_json_write) THEN BOOLEAN ELSE {TRUE}

Next ==
    \E detected_objects \in DetLists, dt \in Dts :
        \E io_ok \in IoOutcomes(clock + dt) :
            Process(detected_objects, dt, io_ok)

Spec == Init /\ [][Next]_vars

\* frames with at most one detection, for the runs over Configs
DetListsCfg == { d \in DetLists : Len(d) <= 1 }

NextCfg ==
    \E detected_objects \in DetListsCfg, dt \in Dts :
        \E io_ok \in IoOutcomes(clock + dt) :
            Process(detected_objects, dt, io_ok)

SpecCfg == InitCfg /\ [][NextCfg]_vars

\* frames and clock steps for the runs about the export: one object that
\* is detected or not, calls 0 to 3 seconds apart
DetListsExport == { <<>>, <<[label |-> "cup", box |-> BoxA]>> }

DtsExport == {0, 1, 2, 3}

NextExport ==
    \E detected_objects \in DetListsExport, dt \in DtsExport :
        \E io_ok \in IoOutcomes(clock + dt) :
            Process(detected_objects, dt, io_ok)

SpecExport == Init /\ [][NextExport]_vars

(***************************************************************************)
(* The camera threads of the program: the reader, the main loop and the    *)
(* Previewer asking for frames.  The scheduler lets every thread that can  *)
(* take a step take one in the end, and the camera keeps delivering, which *)
(* is weak fairness of the reader and of each requesting thread.           *)
(***************************************************************************)
NextCamera ==
    \/ Reader
    \/ \E t \in Threads : Requester(t)
    \/ StartPreview
    \/ Close

SpecCamera ==
    /\ Init
    /\ [][NextCamera]_vars
    /\ WF_vars(Reader)
    /\ \A t \in Threads : WF_vars(Requester(t))

(***************************************************************************)
(* The same program with frames that happen without a pause and hold       *)
(* boxes of different areas, one of them scaled down to no area at all     *)
(* (main.py lines 127-133 truncate the scaled sizes with int()).           *)
(***************************************************************************)
BoxFlat == <<100, 100, 0, 0>>

DetListsTarget ==
    LET D == { [label |-> "cup", box |-> b] :
                 b \in {BoxA, BoxEdge, Box400, BoxFlat} }
    IN {<<>>} \cup { <<d>> : d \in D } \cup { <<d, e>> : d, e \in D }

NextTarget ==
    \E detected_objects \in DetListsTarget :
        \E io_ok \in IoOutcomes(clock) :
            Process(detected_objects, 0, io_ok)

SpecTarget == Init /\ [][NextTarget]_vars

(***************************************************************************)
(* Properties                                                              *)
(***************************************************************************)
Tracked == Keys(entities) \cup Keys(history)

NoRepeatedKey(d) ==
    \A i, j \in DOMAIN d : d[i].uid = d[j].uid => i = j

InKillZone(box) == is_in_kill_zone(box, CAM_WIDTH, CAM_HEIGHT)

\* C1: no id is a key of both the active set and the memory set, and no id
\* stands for two entities
C1_NoDuplicateIds ==
    /\ Keys(entities) \cap Keys(history) = {}
    /\ NoRepeatedKey(entities)
    /\ NoRepeatedKey(history)
    /\ NoRepeatedKey(entities \o history)

\* C1 witness: both sets hold an entity
C1_Witness ==
    /\ Len(entities) >= 1
    /\ Len(history) >= 1

\* C2: every id a call allocates is greater than every id allocated before,
\* in earlier calls and earlier in the same call
C2_IdsNeverReused ==
    [][ /\ \A u \in NewUids(last'.assoc) : \A v \in allocated : u > v
        /\ \A i, j \in DOMAIN last'.assoc :
              ( /\ i < j
                /\ last'.assoc[i].kind = "new"
                /\ last'.assoc[j].kind = "new" )
              => last'.assoc[i].uid < last'.assoc[j].uid ]_vars

\* C2 witness: a call has created an entity under an id greater than the id
\* that an earlier call gave to an entity now gone from both sets
C2_Witness ==
    \E u \in NewUids(last.assoc) :
        \E v \in allocated \ NewUids(last.assoc) :
            v < u /\ v \notin Tracked

\* C3 as claimed: the entity a call creates for a detection is in the
\* returned mapping with active = true and missing_count = 0
C3_NewEntityActive ==
    \A u \in NewUids(last.assoc) :
        /\ u \in Keys(entities)
        /\ Get(entities, u).active
        /\ Get(entities, u).missing_frames = 0

\* C4 as claimed: the entity a call resurrects from memory is in the
\* returned mapping with active = true and missing_count = 0
C4_ResurrectedActive ==
    \A u \in ResurrectedUids(last.assoc) :
        /\ u \in Keys(entities)
        /\ Get(entities, u).active
        /\ Get(entities, u).missing_frames = 0

\* C5: a resurrection takes the entity out of the memory set, and the
\* entity that re-enters the active set has the id, label and created_at
\* of the memory entity, the box of the detection and the time of the call
\* as last_seen_at
C5_ResurrectionPreservesOrigin ==
    [][ \A i \in DOMAIN last'.assoc :
          last'.assoc[i].kind = "resurrect" =>
            LET u == last'.assoc[i].uid
            IN /\ u \in Keys(history)
               /\ u \notin Keys(history')
               /\ u \in Keys(entities') =>
                    /\ Get(entities', u).uid = Get(history, u).uid
                    /\ Get(entities', u).label = Get(history, u).label
                    /\ Get(entities', u).start_time
                          = Get(history, u).start_time
                    /\ Get(entities', u).first_seen_str
                          = Get(history, u).first_seen_str
                    /\ Get(entities', u).box
                          = last'.detected_objects[i].box
                    /\ Get(entities', u).last_seen_time = clock' ]_vars

\* C5 witness: a resurrected entity is in the active set, created before
\* the call that resurrected it
C5_Witness ==
    \E i \in DOMAIN last.assoc :
        /\ last.assoc[i].kind = "resurrect"
        /\ last.assoc[i].uid \in Keys(entities)
        /\ Get(entities, last.assoc[i].uid).start_time < clock
        /\ Get(entities, last.assoc[i].uid).last_seen_time = clock

\* C6: an entity of the active set that a call does not match and whose
\* box is in the kill zone is in neither set when the call returns
C6_KillZoneImmediate ==
    [][ \A k \in DOMAIN entities :
          ( /\ entities[k].uid \notin last'.matched_uids
            /\ \/ entities[k].box[1] < BORDER_MARGIN
               \/ entities[k].box[2] < BORDER_MARGIN
               \/ entities[k].box[1] + entities[k].box[3]
                     > CAM_WIDTH - BORDER_MARGIN
               \/ entities[k].box[2] + entities[k].box[4]
                     > CAM_HEIGHT - BORDER_MARGIN )
          => /\ entities[k].uid \notin Keys(entities')
             /\ entities[k].uid \notin Keys(history') ]_vars

\* C6 witness: the latest call deleted, without keeping it in the history,
\* an entity that it had not itself put into the active set
C6_Witness ==
    \E k \in DOMAIN last.codes :
        /\ ~last.codes[k].keep_in_history
        /\ \A i \in DOMAIN last.assoc :
              last.assoc[i].uid # last.codes[k].uid
        /\ last.codes[k].uid \notin Tracked

\* the object of a solo run is returned under the id of the first call
SoloSameId ==
    /\ last.assoc[1].uid = solo.uid
    /\ solo.uid \in Keys(entities)
    /\ Get(entities, solo.uid).box = last.detected_objects[1].box

\* C7 as claimed: one object, detected alone in every frame, moving at most
\* MAX_TRACKING_DISTANCE per frame, is returned under the same id by every
\* call
C7_IdentityStable ==
    solo.st = "run" => SoloSameId

\* C8 as claimed: a memory entity whose last_seen_at is more than
\* HISTORY_DURATION before the clock of a call is not in the mapping that
\* call returns
C8_ExpiredNeverReturned ==
    [][ \A k \in DOMAIN history :
          clock' - history[k].last_seen_time > HISTORY_DURATION
          => history[k].uid \notin Keys(entities') ]_vars

\* C9 as claimed: the MEMORY_TOLERANCE-th consecutive call that leaves a
\* once matched entity unmatched, outside the kill zone, moves it from the
\* active set to the memory set
C9_Original ==
    [][ \A k \in DOMAIN entities :
          LET u == entities[k].uid
          IN ( /\ u \in DOMAIN unmatched_run
               /\ unmatched_run[u] + 1 = MEMORY_TOLERANCE
               /\ u \notin last'.matched_uids
               /\ ~InKillZone(entities[k].box) )
             => /\ u \in Keys(history')
                /\ u \notin Keys(entities') ]_vars

\* C9 amended: a once matched entity that calls leave unmatched, outside
\* the kill zone, stays in the active set with active = false through the
\* MEMORY_TOLERANCE-th of these calls; the next such call takes it out of
\* the active set and leaves it in the memory set unless the clock of that
\* call is more than HISTORY_DURATION past its last_seen_at
C9_MemoryAfterTolerance ==
    [][ \A k \in DOMAIN entities :
          LET u == entities[k].uid
          IN ( /\ u \in DOMAIN unmatched_run
               /\ u \notin last'.matched_uids
               /\ ~InKillZone(entities[k].box) )
             => IF unmatched_run[u] + 1 <= MEMORY_TOLERANCE
                THEN /\ u \in Keys(entities')
                     /\ u \notin Keys(history')
                     /\ ~Get(entities', u).active
                ELSE /\ unmatched_run[u] = MEMORY_TOLERANCE
                     /\ u \notin Keys(entities')
                     /\ u \in Keys(history') <=>
                          clock' - entities[k].last_seen_time
                             <= HISTORY_DURATION ]_vars

\* C9 witness: the latest call moved an entity to the memory set on its
\* (MEMORY_TOLERANCE + 1)-th unmatched call after a match
C9_Witness ==
    \E r \in last.runs_disposed :
        /\ r.run = MEMORY_TOLERANCE + 1
        /\ r.uid \in Keys(history)

\* C10: an entity of either set with active = true has missing_count = 0
C10_ActiveImpliesNotMissing ==
    /\ \A k \in DOMAIN entities :
          entities[k].active => entities[k].missing_frames = 0
    /\ \A k \in DOMAIN history :
          history[k].active => history[k].missing_frames = 0

\* C10 witness: the active set holds an entity with active = true next to
\* one with active = false
C10_Witness ==
    /\ \E k \in DOMAIN entities : entities[k].active
    /\ \E k \in DOMAIN entities : ~entities[k].active

\* C11: an entity that is in the active set before and after a call has
\* missing_count 0 after the call if Step 2 matched it, and one more than
\* before if not
C11_MissingCountStep ==
    [][ \A k \in DOMAIN entities :
          LET u == entities[k].uid
          IN u \in Keys(entities') =>
               Get(entities', u).missing_frames =
                  IF u \in last'.matched_uids
                  THEN 0
                  ELSE entities[k].missing_frames + 1 ]_vars

\* C11 witness: the latest call matched one entity, which has
\* missing_count 0, and left another unmatched for the second time
C11_Witness ==
    /\ \E u \in last.matched_uids :
          /\ u \in Keys(entities)
          /\ Get(entities, u).missing_frames = 0
    /\ \E k \in DOMAIN entities :
          /\ entities[k].uid \notin last.matched_uids
          /\ entities[k].missing_frames = 2
          /\ \A i \in DOMAIN last.assoc :
                last.assoc[i].uid # entities[k].uid

\* the label of the entity that the two sets hold under uid
LabelOf(ents, hist, uid) ==
    IF uid \in Keys(ents) THEN Get(ents, uid).label
    ELSE Get(hist, uid).label

\* C12: an id that is in the active set or the memory set before and after
\* a call has the same label after the call as before, whichever of the two
\* sets it is in
C12_LabelImmutable ==
    [][ \A u \in Tracked :
          u \in (Keys(entities') \cup Keys(history')) =>
             LabelOf(entities', history', u)
                = LabelOf(entities, history, u) ]_vars

\* C12 witness: the latest call, given detections of two labels, has taken
\* an entity back from the memory set
C12_Witness ==
    /\ \E i \in DOMAIN last.assoc :
          /\ last.assoc[i].kind = "resurrect"
          /\ last.assoc[i].uid \in Keys(entities)
    /\ \E i, j \in DOMAIN last.detected_objects :
          last.detected_objects[i].label # last.detected_objects[j].label

\* C13: a call whose detections are exactly the labels and boxes that the
\* previous call matched to entities matches each of these entities again,
\* leaves its id and created_at as they were and its missing_count at 0,
\* and neither creates nor resurrects an entity
C13_IdempotentNoOp ==
    [][ SameDetections(last'.detected_objects, last.matched_uids) =>
          /\ \A u \in last.matched_uids :
                /\ u \in last'.matched_uids
                /\ u \in Keys(entities')
                /\ Get(entities', u).uid = u
                /\ Get(entities', u).start_time
                      = Get(entities, u).start_time
                /\ Get(entities', u).missing_frames = 0
          /\ NewUids(last'.assoc) = {}
          /\ ResurrectedUids(last'.assoc) = {}
          /\ next_uid' = next_uid ]_vars

\* C13 witness: the latest call got the boxes of the two entities that the
\* call before had matched, and has matched two entities
C13_Witness ==
    /\ last.repeated
    /\ Len(last.detected_objects) = 2
    /\ last.matched_uids \subseteq Keys(entities)
    /\ Cardinality(last.matched_uids) = 2

\* C14: an entity of the active set that a call leaves unmatched, outside
\* the kill zone and with a missing_count of at most MEMORY_TOLERANCE, is
\* in the returned mapping with active = false and not in the memory set;
\* an entity with active = false that the next call matches stays in the
\* active set with its id and created_at, active = true and
\* missing_count = 0, and is in the memory set neither before nor after
C14_GraceWindow ==
    [][ \A k \in DOMAIN entities :
          LET u == entities[k].uid
          IN /\ ( /\ u \notin last'.matched_uids
                  /\ ~InKillZone(entities[k].box)
                  /\ entities[k].missing_frames + 1 <= MEMORY_TOLERANCE )
                => /\ u \in Keys(entities')
                   /\ ~Get(entities', u).active
                   /\ u \notin Keys(history')
             /\ ( /\ ~entities[k].active
                  /\ u \in last'.matched_uids )
                => /\ u \in Keys(entities')
                   /\ Get(entities', u).uid = u
                   /\ Get(entities', u).start_time = entities[k].start_time
                   /\ Get(entities', u).active
                   /\ Get(entities', u).missing_frames = 0
                   /\ u \notin Keys(history)
                   /\ u \notin Keys(history') ]_vars

\* C14 witness: the latest call has matched an entity that had
\* active = false and was created before the call, and has left another
\* entity in the active set at a missing_count of MEMORY_TOLERANCE
C14_Witness ==
    /\ \E u \in last.rematched :
          /\ u \in Keys(entities)
          /\ Get(entities, u).active
          /\ Get(entities, u).start_time < clock
    /\ \E k \in DOMAIN entities :
          /\ ~entities[k].active
          /\ entities[k].missing_frames = MEMORY_TOLERANCE
          /\ ~InKillZone(entities[k].box)

\* C15: a call with an empty detection list creates and resurrects nothing
\* and leaves the id counter alone; every entity of the active set gets
\* missing_count + 1 and active = false, and is then deleted if its box is
\* in the kill zone, moved to the memory set if its missing_count exceeds
\* MEMORY_TOLERANCE (and dropped from there at once if it is older than
\* HISTORY_DURATION), and kept in the active set otherwise
C15_EmptyFrame ==
    [][ last'.detected_objects = <<>> =>
          /\ last'.assoc = <<>>
          /\ last'.matched_uids = {}
          /\ next_uid' = next_uid
          /\ Keys(entities') \subseteq Keys(entities)
          /\ Keys(history') \subseteq Keys(history) \cup Keys(entities)
          /\ \A k \in DOMAIN entities :
                LET e == entities[k]
                    marked == [e EXCEPT !.missing_frames = @ + 1,
                                        !.active = FALSE]
                IN IF InKillZone(e.box)
                   THEN /\ e.uid \notin Keys(entities')
                        /\ e.uid \notin Keys(history')
                   ELSE IF marked.missing_frames > MEMORY_TOLERANCE
                   THEN /\ e.uid \notin Keys(entities')
                        /\ IF clock' - e.last_seen_time > HISTORY_DURATION
                           THEN e.uid \notin Keys(history')
                           ELSE /\ e.uid \in Keys(history')
                                /\ Get(history', e.uid) = marked
                   ELSE /\ e.uid \in Keys(entities')
                        /\ Get(entities', e.uid) = marked
                        /\ e.uid \notin Keys(history') ]_vars

\* C15 witness: the latest call had no detection, kept one entity in the
\* active set and took another out of it
C15_Witness ==
    /\ last.detected_objects = <<>>
    /\ \E k \in DOMAIN entities :
          ~entities[k].active /\ entities[k].missing_frames >= 1
    /\ last.codes # <<>>

\* what the specification asks of a configuration
ValidConfig(c) ==
    /\ c.RECOVERY_DISTANCE >= c.MAX_TRACKING_DISTANCE
    /\ c.MEMORY_TOLERANCE >= 0
    /\ c.BORDER_MARGIN >= 0
    /\ c.HISTORY_DURATION >= 0

\* C16 as claimed: a tracker constructed under an invalid configuration
\* processes no frame: no call has stamped last_json_write and no id has
\* been allocated
C16_InvalidConfigRejected ==
    ~ValidConfig(config) => (last_json_write = 0 /\ allocated = {})

\* C17: a call whose export does not reach the file returns all the same;
\* the active set, the memory set, the id counter and the time stamp of
\* the export are what Steps 1 to 6 give when the write succeeds, so the
\* next export is attempted by the first call that comes more than
\* write_interval after the failed one
C17_ExportFailureHarmless ==
    [][ ( /\ ExportDue(clock', last_json_write)
          /\ last'.json.export # "written" ) =>
          /\ last'.json.export = "failed"
          /\ \E r \in {Track(last'.detected_objects, clock')} :
                /\ entities' = r.entities
                /\ history' = r.history
                /\ next_uid' = r.next_uid
          /\ last_json_write' =
                Export(entities', clock', last_json_write, TRUE)
                   .last_json_write
          /\ last_json_write' = clock' ]_vars

\* C17 witness: the write of the latest call failed; the call has created
\* an entity, which is in the active set, and has stamped last_json_write
C17_Witness ==
    /\ last.json.export = "failed"
    /\ \E u \in NewUids(last.assoc) : u \in Keys(entities)
    /\ last_json_write = clock

\* C18: a call exports only if no call has exported before or more than
\* write_interval has passed on the clock since the latest call that
\* exported; a call within write_interval of that export exports nothing
\* and returns the mapping of Steps 1 to 5
C18_ExportThrottled ==
    [][ /\ last'.json.export # "none" =>
              \/ exported_at = None
              \/ clock' - exported_at > write_interval
        /\ ( /\ exported_at # None
             /\ clock' - exported_at <= write_interval ) =>
              /\ last'.json = NoExport
              /\ exported_at' = exported_at
              /\ entities' = Track(last'.detected_objects, clock').entities
      ]_vars

\* C18 witness: the latest call came exactly write_interval after a call
\* that exported; it has exported nothing and returned an entity
C18_Witness ==
    /\ exported_at # None
    /\ clock - exported_at = write_interval
    /\ last.json.export = "none"
    /\ entities # <<>>

\* the ids that the latest call matched, created or resurrected
DetectedUids ==
    last.matched_uids \cup NewUids(last.assoc)
                      \cup ResurrectedUids(last.assoc)

\* C19 as claimed: an export that reached the file holds one record for
\* each entity of the active set, none for an entity of the memory set,
\* and the status of a record is LIVE exactly if the call matched,
\* created or resurrected the entity
C19_ExportRecords ==
    last.json.export = "written" =>
        /\ Len(last.json.data) = Len(entities)
        /\ \A k \in DOMAIN last.json.data :
              /\ last.json.data[k].internal_id = entities[k].uid
              /\ last.json.data[k].internal_id \notin Keys(history)
              /\ last.json.data[k].status = "LIVE" <=>
                    last.json.data[k].internal_id \in DetectedUids

\* C20: when the mapping returned for a frame holds no entity with
\* active = true, the main loop selects no target and the motion command
\* of the frame has throttle 0 and steering 0
C20_NoActiveNoMotion ==
    (\A k \in DOMAIN entities : ~entities[k].active) =>
        /\ last.target_entity = <<>>
        /\ last.command.throttle = 0
        /\ last.command.steering = 0

\* C20 witness: the mapping returned for the latest frame holds entities,
\* none of them active, and the command of the frame is the stop command
C20_Witness ==
    /\ entities # <<>>
    /\ \A k \in DOMAIN entities : ~entities[k].active
    /\ last.command.status_text = "NO TARGET - STOPPED"

\* the candidate pairs of Step 1 for the detections of a call, as a set
Candidates(dets) ==
    LET ms == BuildMatches(entities, dets, 1)
    IN { ms[k] : k \in DOMAIN ms }

\* the candidate pairs that Step 2 accepted, read from what the call
\* associated with each detection
Accepted(dets, assoc) ==
    { m \in Candidates(dets) :
        assoc[m.i].kind = "match" /\ assoc[m.i].uid = m.uid }

\* C21: the accepted pairs are candidate pairs and form a one-to-one
\* matching; a candidate pair that is not accepted shares its entity or
\* its detection with an accepted pair that is not farther, so a closest
\* candidate pair is accepted and no candidate pair keeps both ends free
C21_GreedyMatching ==
    [][ \E dets \in {last'.detected_objects} :
        \E acc \in {Accepted(dets, last'.assoc)} :
          /\ \A i \in DOMAIN dets :
                last'.assoc[i].kind = "match" =>
                   \E m \in acc : m.i = i
          /\ \A m, n \in acc : (m.uid = n.uid \/ m.i = n.i) => m = n
          /\ last'.matched_uids = { m.uid : m \in acc }
          /\ \A m \in Candidates(dets) \ acc :
                \E n \in acc : /\ n.uid = m.uid \/ n.i = m.i
                               /\ n.dist <= m.dist
          /\ Candidates(dets) # {} =>
                \E n \in acc : \A m \in Candidates(dets) :
                                   n.dist <= m.dist ]_vars

\* C21 witness: of two detections of one label the second in the list was
\* matched to an entity and the first, left over, got an entity of its own
C21_Witness ==
    /\ Len(last.detected_objects) = 2
    /\ last.detected_objects[1].label = last.detected_objects[2].label
    /\ last.assoc[2].kind = "match"
    /\ last.assoc[1].kind = "new"
    /\ last.assoc[2].uid \in Keys(entities)

\* C22: an entity of the active set is updated in Step 2 only from a
\* detection of its own label whose centroid lies strictly nearer than
\* MAX_TRACKING_DISTANCE to the entity's centroid before the call; an
\* entity that no detection matched keeps its box and its last-seen time
C22_MatchGate ==
    [][ \E dets \in {last'.detected_objects} :
          /\ \A i \in DOMAIN dets :
                last'.assoc[i].kind = "match" =>
                  /\ last'.assoc[i].uid \in Keys(entities)
                  /\ \E e \in {Get(entities, last'.assoc[i].uid)} :
                        /\ e.label = dets[i].label
                        /\ calculate_distance(e.box, dets[i].box)
                              < 4 * config.MAX_TRACKING_DISTANCE
                                  * config.MAX_TRACKING_DISTANCE
          /\ \A u \in Keys(entities) \cap Keys(entities') :
                (\A i \in DOMAIN dets :
                    ~(last'.assoc[i].kind = "match"
                      /\ last'.assoc[i].uid = u)) =>
                  /\ Get(entities', u).box = Get(entities, u).box
                  /\ Get(entities', u).last_seen_time
                        = Get(entities, u).last_seen_time ]_vars

\* C22 witness: a cup was detected at exactly MAX_TRACKING_DISTANCE from a
\* tracked cup, which was left as it was while the detection got an entity
\* of its own
C22_Witness ==
    /\ Len(last.detected_objects) = 1
    /\ last.detected_objects[1].box = Box400
    /\ last.assoc[1].kind = "new"
    /\ \E u \in Keys(entities) :
          /\ Get(entities, u).label = last.detected_objects[1].label
          /\ Get(entities, u).box = BoxA
          /\ u # last.assoc[1].uid
          /\ calculate_distance(BoxA, Box400)
                = 4 * MAX_TRACKING_DISTANCE * MAX_TRACKING_DISTANCE

\* C22 witness for the label: a ball was detected on the very box of a
\* tracked cup and did not update it
C22_WitnessLabel ==
    /\ Len(last.detected_objects) = 1
    /\ last.detected_objects[1].label = "ball"
    /\ last.assoc[1].kind = "new"
    /\ \E u \in Keys(entities) :
          /\ Get(entities, u).label = "cup"
          /\ Get(entities, u).box = last.detected_objects[1].box
          /\ Get(entities, u).missing_frames > 0

\* the memory entities present when Step 3 reaches detection i: those of
\* the memory set at the start of the call that no earlier detection of the
\* frame has resurrected
MemoryAt(dets, assoc, i) ==
    { history[k] : k \in { k \in DOMAIN history :
        \A j \in 1..(i - 1) :
           ~(assoc[j].kind = "resurrect" /\ assoc[j].uid = history[k].uid) } }

\* those of them with the label of detection i and strictly nearer than
\* RECOVERY_DISTANCE to it
InRecoveryRange(dets, assoc, i) ==
    { h \in MemoryAt(dets, assoc, i) :
        /\ h.label = dets[i].label
        /\ calculate_distance(h.box, dets[i].box)
              < 4 * config.RECOVERY_DISTANCE * config.RECOVERY_DISTANCE }

\* C23: a detection that Step 2 did not claim resurrects a memory entity
\* exactly when a memory entity of its label is strictly nearer than
\* RECOVERY_DISTANCE, and then one at the least distance among those
\* present; otherwise it gets a new entity with an id never used before
C23_RecoveryRule ==
    [][ \E dets \in {last'.detected_objects} :
        \E assoc \in {last'.assoc} :
        \A i \in DOMAIN dets :
          assoc[i].kind # "match" =>
            \E cands \in {InRecoveryRange(dets, assoc, i)} :
              /\ assoc[i].kind \in {"resurrect", "new"}
              /\ assoc[i].kind = "resurrect" <=> cands # {}
              /\ assoc[i].kind = "resurrect" =>
                    \E h \in cands :
                      /\ h.uid = assoc[i].uid
                      /\ \A g \in cands :
                            calculate_distance(h.box, dets[i].box)
                              <= calculate_distance(g.box, dets[i].box)
              /\ assoc[i].kind = "new" =>
                    /\ assoc[i].uid \notin Keys(entities) \cup Keys(history)
                    /\ assoc[i].uid \notin allocated
                    /\ assoc[i].uid >= next_uid ]_vars

\* C23 witness: a detection resurrected a memory entity although another
\* memory entity of its label within RECOVERY_DISTANCE, farther away, was
\* there and stays in the memory set
C23_Witness ==
    \E i \in DOMAIN last.detected_objects :
      /\ last.assoc[i].kind = "resurrect"
      /\ \E k \in DOMAIN history :
            /\ history[k].label = last.detected_objects[i].label
            /\ calculate_distance(history[k].box,
                                  last.detected_objects[i].box)
                  < 4 * RECOVERY_DISTANCE * RECOVERY_DISTANCE
            /\ \A c \in DOMAIN last.codes :
                  last.codes[c].uid # history[k].uid

\* C23 witness for the limit: a cup detected at exactly RECOVERY_DISTANCE
\* from a cup of the memory set got a new entity and the memory entity
\* stayed where it was
C23_WitnessLimit ==
    /\ Len(last.detected_objects) = 1
    /\ last.detected_objects[1].box = Box500
    /\ last.assoc[1].kind = "new"
    /\ \E k \in DOMAIN history :
          /\ history[k].label = last.detected_objects[1].label
          /\ history[k].box = BoxA
          /\ \A c \in DOMAIN last.codes :
                last.codes[c].uid # history[k].uid
          /\ calculate_distance(BoxA, Box500)
                = 4 * RECOVERY_DISTANCE * RECOVERY_DISTANCE

\* h is the one nearest candidate of detection j among the memory
\* entities in mem: of its label, strictly nearer than RECOVERY_DISTANCE
\* and strictly nearer than every other such entity
NearestIn(mem, h, det) ==
    /\ h \in mem
    /\ h.label = det.label
    /\ calculate_distance(h.box, det.box)
          < 4 * config.RECOVERY_DISTANCE * config.RECOVERY_DISTANCE
    /\ \A g \in mem \ {h} :
          g.label = det.label =>
            calculate_distance(h.box, det.box)
              < calculate_distance(g.box, det.box)

\* C24: when two detections that Step 2 left unclaimed have the same
\* memory entity as nearest candidate, the earlier one in the list
\* resurrects it and the later one resurrects another memory entity still
\* present and in range, or creates an entity when there is none; no
\* memory entity is resurrected for two detections of a call
C24_ResurrectedOnce ==
    [][ \E dets \in {last'.detected_objects} :
        \E assoc \in {last'.assoc} :
          /\ \A i, j \in DOMAIN dets :
                (i < j /\ assoc[i].kind = "resurrect"
                       /\ assoc[j].kind = "resurrect") =>
                   assoc[i].uid # assoc[j].uid
          /\ \A i, j \in DOMAIN dets :
              \A h \in MemoryAt(dets, assoc, i) :
                (/\ i < j
                 /\ assoc[i].kind # "match" /\ assoc[j].kind # "match"
                 /\ NearestIn(MemoryAt(dets, assoc, i), h, dets[i])
                 /\ NearestIn(MemoryAt(dets, assoc, i), h, dets[j])) =>
                   /\ assoc[i] = [kind |-> "resurrect", uid |-> h.uid]
                   /\ assoc[j].uid # h.uid
                   /\ IF InRecoveryRange(dets, assoc, j) # {}
                      THEN /\ assoc[j].kind = "resurrect"
                           /\ assoc[j].uid \in
                                { g.uid : g \in InRecoveryRange(dets, assoc, j) }
                      ELSE /\ assoc[j].kind = "new"
                           /\ assoc[j].uid \notin Keys(history) ]_vars

\* C24 witness: the same detection came twice in one frame; the first
\* resurrected a memory entity and the second, which had the same nearest
\* candidate, got a new entity
C24_Witness ==
    /\ Len(last.detected_objects) = 2
    /\ last.detected_objects[1] = last.detected_objects[2]
    /\ last.assoc[1].kind = "resurrect"
    /\ last.assoc[2].kind = "new"
    /\ last.assoc[2].uid # last.assoc[1].uid

\* C24 witness for the other outcome: the second of the two resurrected
\* another memory entity
C24_WitnessOther ==
    /\ Len(last.detected_objects) = 2
    /\ last.detected_objects[1] = last.detected_objects[2]
    /\ last.assoc[1].kind = "resurrect"
    /\ last.assoc[2].kind = "resurrect"
    /\ last.assoc[2].uid # last.assoc[1].uid

\* C25: when a call has returned, whatever its detections and whether or
\* not it exported, no entity of the memory set was last seen more than the
\* retention duration before the clock value the call read at its start
C25_MemoryWithinRetention ==
    \A k \in DOMAIN history :
       clock - history[k].last_seen_time <= config.HISTORY_DURATION

\* C25 witness: a call with no detections that did not export removed an
\* entity from the memory set
C25_Witness ==
    /\ last.detected_objects = <<>>
    /\ last.json.export = "none"
    /\ Len(last.history_to_delete) > 0
    /\ exported_at # None

\* C25 witness for the limit: an entity of the memory set last seen
\* exactly the retention duration before the call is kept
C25_WitnessLimit ==
    \E k \in DOMAIN history :
       clock - history[k].last_seen_time = HISTORY_DURATION

\* the positions of the returned mapping whose entity is active
ActiveEntries == { k \in DOMAIN entities : entities[k].active }

\* box area w * h of the entity at a position of the mapping
AreaAt(k) == entities[k].box[3] * entities[k].box[4]

\* C26: the steering target is an active entry of the returned mapping
\* whose box area is the largest among the active entries, the first such
\* entry in mapping order; there is no target exactly when no active entry
\* has positive area, in particular none is chosen among inactive entries
C26_TargetChoice ==
    /\ last.target_entity = <<>> <=>
          \A k \in ActiveEntries : AreaAt(k) <= 0
    /\ last.target_entity # <<>> =>
          \E k \in ActiveEntries :
             /\ last.target_entity = <<entities[k]>>
             /\ \A j \in ActiveEntries :
                   /\ AreaAt(j) <= AreaAt(k)
                   /\ j < k => AreaAt(j) < AreaAt(k)

\* C26 witness: of two active entries the second has the larger box and
\* is the target
C26_Witness ==
    /\ ActiveEntries = {1, 2}
    /\ AreaAt(1) < AreaAt(2)
    /\ last.target_entity = <<entities[2]>>

\* C26 witness for the tie: two active entries of equal positive area,
\* the first is the target
C26_WitnessTie ==
    /\ ActiveEntries = {1, 2}
    /\ AreaAt(1) = AreaAt(2) /\ AreaAt(1) > 0
    /\ last.target_entity = <<entities[1]>>

\* C26 witness for the empty choice: an active entry without area and an
\* inactive entry with area, and no target
C26_WitnessNone ==
    /\ \E k \in ActiveEntries : AreaAt(k) = 0
    /\ \E k \in DOMAIN entities \ ActiveEntries : AreaAt(k) > 0
    /\ last.target_entity = <<>>

C27_WitnessNew ==
    \E i \in DOMAIN last.detected_objects :
      /\ last.assoc[i].kind = "new"
      /\ is_in_kill_zone(last.detected_objects[i].box, CAM_WIDTH, CAM_HEIGHT)
      /\ last.assoc[i].uid \notin Keys(entities) \cup Keys(history)
      /\ next_uid = last.assoc[i].uid + 1

\* C28: in one call every detection is associated with one entity id: that
\* of the active entity it matched, of the memory entity it resurrected, or
\* of the entity created for it, and with no other; two detections of a
\* frame are never associated with the same id
C28_OneIdPerDetection ==
    [][ \E dets \in {last'.detected_objects} :
        \E assoc \in {last'.assoc} :
          /\ DOMAIN assoc = DOMAIN dets
          /\ \A i \in DOMAIN dets :
                \/ assoc[i].kind = "match"
                     /\ assoc[i].uid \in Keys(entities)
                \/ assoc[i].kind = "resurrect"
                     /\ assoc[i].uid \in Keys(history)
                     /\ assoc[i].uid \notin Keys(entities)
                \/ assoc[i].kind = "new"
                     /\ assoc[i].uid \notin Keys(entities) \cup Keys(history)
          /\ \A i, j \in DOMAIN dets :
                assoc[i].uid = assoc[j].uid => i = j
          /\ last'.matched_uids =
                { assoc[i].uid : i \in { i \in DOMAIN dets :
                                            assoc[i].kind = "match" } }
          /\ \A i \in DOMAIN dets :
                assoc[i].uid \in Keys(entities') =>
                   Get(entities', assoc[i].uid).box = dets[i].box ]_vars

\* C28 witness: a frame of two detections, one matched to an active entity
\* and one that resurrected a memory entity, under two different ids
C28_Witness ==
    /\ Len(last.detected_objects) = 2
    /\ { last.assoc[1].kind, last.assoc[2].kind } = {"match", "resurrect"}
    /\ last.assoc[1].uid # last.assoc[2].uid
    /\ { last.assoc[1].uid, last.assoc[2].uid } \subseteq Keys(entities)

\* C29: the id counter never decreases and is above every id of the
\* active set and the memory set; a call raises it by the number of its
\* detections that neither matched in Step 2 nor resurrected a memory
\* entity, whatever else the call matched, resurrected, disposed of or
\* let expire
C29_IdCounter ==
    [][ /\ next_uid' >= next_uid
        /\ \A u \in Keys(entities) \cup Keys(history) : u < next_uid
        /\ \A u \in Keys(entities') \cup Keys(history') : u < next_uid'
        /\ next_uid' - next_uid =
              Cardinality({ i \in DOMAIN last'.detected_objects :
                              last'.assoc[i].kind
                                 \notin {"match", "resurrect"} }) ]_vars

\* C29 witness: a call resurrected a memory entity, moved an entity out of
\* the active set and created nothing, and the counter stands one above
\* the number of ids handed out so far
C29_Witness ==
    /\ \E i \in DOMAIN last.detected_objects :
          last.assoc[i].kind = "resurrect"
    /\ \A i \in DOMAIN last.detected_objects :
          last.assoc[i].kind \in {"match", "resurrect"}
    /\ Len(last.codes) > 0
    /\ allocated # {}
    /\ next_uid = Cardinality(allocated) + 1

\* C29 witness for growth: a frame of two detections that both got new
\* entities raised the counter from 1 to 3
C29_WitnessGrowth ==
    /\ Len(last.detected_objects) = 2
    /\ \A i \in {1, 2} : last.assoc[i].kind = "new"
    /\ allocated = {1, 2}
    /\ next_uid = 3

\* C30: while the reader runs and the camera delivers, every getFrame
\* call receives a frame in the end
C30_EveryRequestServed ==
    \A t \in Threads :
       (thread_pc[t] = "get") ~> (thread_pc[t] = "loop" \/ ~running)

\* C30, for a thread that is alone in asking: as long as the preview is
\* never started every getFrame call of the main loop receives a frame
C30_AloneIsServed ==
    [](thread_pc["previewer"] = "unstarted") =>
       ((thread_pc["main"] = "get") ~>
           (thread_pc["main"] = "loop" \/ ~running))

\* C30, the part about the queues: the queue of a getFrame call is in
\* the list at most once, is taken from it before anything is put in it,
\* and is filled at most once, so the reader finds it empty when it puts
\* the frame
C30_FilledOnce ==
    /\ \A t \in Threads : filled[t] <= 1 /\ slot[t] <= filled[t]
    /\ \A i, j \in DOMAIN queues : queues[i] = queues[j] => i = j
    /\ \A i \in DOMAIN queues : filled[queues[i]] = 0
    /\ reader_pc = "put" =>
          /\ slot[reader_queue] = 0
          /\ filled[reader_queue] = 0
          /\ \A i \in DOMAIN queues : queues[i] # reader_queue
    /\ \A t \in Threads :
          (thread_pc[t] = "get" /\ filled[t] = 0) =>
             \/ \E i \in DOMAIN queues : queues[i] = t
             \/ reader_pc = "put" /\ reader_queue = t

\* C31: when a call has returned, with a tolerance that is not negative,
\* every entity of the memory set is inactive with a missing count of
\* MEMORY_TOLERANCE + 1, and no entity of the active set has a missing count
\* above MEMORY_TOLERANCE
C31_MissingCountBounds ==
    config.MEMORY_TOLERANCE >= 0 =>
       /\ \A k \in DOMAIN history :
             /\ history[k].active = FALSE
             /\ history[k].missing_frames = config.MEMORY_TOLERANCE + 1
       /\ \A k \in DOMAIN entities :
             entities[k].missing_frames <= config.MEMORY_TOLERANCE

\* C31 witness: the memory set holds an entity, moved there with a missing
\* count of MEMORY_TOLERANCE + 1, beside an entity of the active set that
\* has been missing for MEMORY_TOLERANCE calls and stays
C31_Witness ==
    /\ config.MEMORY_TOLERANCE >= 0
    /\ \E k \in DOMAIN history :
          history[k].missing_frames = config.MEMORY_TOLERANCE + 1
    /\ \E k \in DOMAIN entities :
          entities[k].missing_frames = config.MEMORY_TOLERANCE

====
